---- MODULE Spec2Model ----
(***************************************************************************)
(* Booking and availability-conflict engine of PsicologiaGestao.          *)
(*                                                                         *)
(* The store (appointments, room_bookings and their serial id counters)   *)
(* is shared by concurrently running HTTP handlers.  A handler runs       *)
(* atomically up to the storage call it awaits; each awaited storage call *)
(* is one step, so the steps of different requests interleave.            *)
(*                                                                         *)
(* The store is DatabaseStorage: tables of a Postgres database, whose      *)
(* time columns hand back "HH:MM:SS" whatever form was inserted.          *)
(*                                                                         *)
(* A string is the sequence of its ASCII codes: "09:30" is                 *)
(* <<48, 57, 58, 51, 48>>.  A calendar date "YYYY-MM-DD" is a day number  *)
(* >= 1 (day 1 is Monday 2024-06-03, so day 0 is a Sunday); a JavaScript  *)
(* Date is an instant counted in hours since 00:00 UTC of day 0.          *)
(***************************************************************************)
EXTENDS Integers, Sequences, FiniteSets, TLC

VARIABLES
  appointments,        \* rows of table appointments
  roomBookings,        \* rows of table room_bookings
  nextAppointmentId,   \* serial of appointments.id
  nextRoomBookingId,   \* serial of room_bookings.id
  req,                 \* per connection: the request in flight, if any
  response,            \* the response sent last
  tz,                  \* offset of the server's local time from UTC, in hours
  availableTimes,      \* last result of calculateAvailableSlots
  lastCall             \* history: the arguments of that call

vars == <<appointments, roomBookings, nextAppointmentId, nextRoomBookingId,
          req, response, tz, availableTimes, lastCall>>

----------------------------------------------------------------------------
(* Bounds *)

MaxAppointmentId == 1   \* ids handed out by the serial of appointments
MaxRoomBookingId == 2   \* ids handed out by the serial of room_bookings
MaxReqs == 2            \* connections served concurrently

Reqs == 1..MaxReqs

(* Input domains *)

T0900 == <<48, 57, 58, 48, 48>>   \* "09:00"
T0930 == <<48, 57, 58, 51, 48>>   \* "09:30"
T1000 == <<49, 48, 58, 48, 48>>   \* "10:00"

Times == {T0900, T0930, T1000}
Rooms == {1, 2}
Dates == {1, 2}
Psychologists == {1}          \* rows of table psychologists (static here)
PsychologistIds == {1, 2}     \* ids a caller may send; 2 names no psychologist
Missing == 0                  \* a field absent from the request body (falsy)
NoStatus == "none"            \* status absent from the request body

----------------------------------------------------------------------------
(* Time-interval utility *)

\* JavaScript a < b on strings: by code unit, a proper prefix sorts first
RECURSIVE StrLess(_, _)
StrLess(a, b) ==
  IF b = <<>> THEN FALSE
  ELSE IF a = <<>> THEN TRUE
  ELSE IF Head(a) # Head(b) THEN Head(a) < Head(b)
  ELSE StrLess(Tail(a), Tail(b))

\* timeStr.split(':').map(Number); hours * 60 + minutes
timeToMinutes(timeStr) ==
  LET hours == (timeStr[1] - 48) * 10 + (timeStr[2] - 48)
      minutes == (timeStr[4] - 48) * 10 + (timeStr[5] - 48)
  IN hours * 60 + minutes

\* new Date("YYYY-MM-DD"): 00:00 UTC of that day
NewDate(day) == day * 24

\* date.toISOString().split('T')[0]: the UTC calendar day of an instant
toISODate(date) == date \div 24

----------------------------------------------------------------------------
(* Storage *)

\* a value of a Postgres time column as a query returns it: "HH:MM" was
\* stored as the time of day it names and comes back with its seconds
pgTime(timeStr) ==
  IF Len(timeStr) = 5 THEN timeStr \o <<58, 48, 48>> ELSE timeStr

\* variant: a window that ends where the booking starts counts as overlapping
overlapsLexicallyClosed(startTime, endTime, bookingStartTime, bookingEndTime) ==
  /\ StrLess(startTime, bookingEndTime)
  /\ ~StrLess(endTime, bookingStartTime)

\* startTime < bookingEndTime && endTime > bookingStartTime, on strings
overlapsLexically(startTime, endTime, bookingStartTime, bookingEndTime) ==
  /\ StrLess(startTime, bookingEndTime)
  /\ StrLess(bookingStartTime, endTime)

\* newStart < appEnd && newEnd > appStart, on minutes since midnight
overlapsInMinutes(startTime, endTime, appStartTime, appEndTime) ==
  LET appStart == timeToMinutes(appStartTime)
      appEnd == timeToMinutes(appEndTime)
      newStart == timeToMinutes(startTime)
      newEnd == timeToMinutes(endTime)
  IN newStart < appEnd /\ newEnd > appStart

\* variant: the booking of a canceled appointment does not count
checkRoomAvailabilityLive(roomId, date, startTime, endTime) ==
  LET formattedDate == toISODate(date)
      bookingsOnDate ==
        {b \in roomBookings :
           /\ b.roomId = roomId /\ b.date = formattedDate
           /\ ~\E a \in appointments :
                 /\ a.status = "canceled"
                 /\ a.roomId = b.roomId /\ a.date = b.date
                 /\ a.startTime = b.startTime /\ a.endTime = b.endTime}
      hasOverlap == \E booking \in bookingsOnDate :
                      overlapsLexically(startTime, endTime,
                                        booking.startTime, booking.endTime)
  IN ~hasOverlap

checkRoomAvailability(roomId, date, startTime, endTime) ==
  LET formattedDate == toISODate(date)
      bookingsOnDate == {b \in roomBookings :
                           b.roomId = roomId /\ b.date = formattedDate}
      hasOverlap == \E booking \in bookingsOnDate :
                      overlapsLexically(startTime, endTime,
                                        booking.startTime, booking.endTime)
  IN ~hasOverlap

\* the row inserted by createRoomBooking; id from the serial
createRoomBooking(roomBooking) ==
  [id |-> nextRoomBookingId,
   roomId |-> roomBooking.roomId,
   psychologistId |-> roomBooking.psychologistId,
   date |-> roomBooking.date,
   startTime |-> pgTime(roomBooking.startTime),
   endTime |-> pgTime(roomBooking.endTime)]

\* the row inserted by createAppointment; status defaults to 'scheduled'
createAppointment(appointment) ==
  [id |-> nextAppointmentId,
   psychologistId |-> appointment.psychologistId,
   roomId |-> appointment.roomId,
   date |-> appointment.date,
   startTime |-> pgTime(appointment.startTime),
   endTime |-> pgTime(appointment.endTime),
   status |-> IF appointment.status = NoStatus THEN "scheduled"
              ELSE appointment.status]

\* MemStorage.createRoomBooking: the row is the request's fields and the id,
\* the times as the request wrote them
memCreateRoomBooking(roomBooking) ==
  [id |-> nextRoomBookingId,
   roomId |-> roomBooking.roomId,
   psychologistId |-> roomBooking.psychologistId,
   date |-> roomBooking.date,
   startTime |-> roomBooking.startTime,
   endTime |-> roomBooking.endTime]

\* MemStorage.getRoomBookingsByDate over the values of its map: the bookings
\* whose date names the UTC day of the argument
memGetRoomBookingsByDate(bookings, date) ==
  LET dateString == toISODate(date)
  IN {booking \in bookings : toISODate(NewDate(booking.date)) = dateString}

\* MemStorage.checkRoomAvailability over the values of its map
memCheckRoomAvailability(bookings, roomId, date, startTime, endTime) ==
  LET bookingsOnDate == memGetRoomBookingsByDate(bookings, date)
      hasOverlap == \E booking \in bookingsOnDate :
                      IF booking.roomId # roomId THEN FALSE
                      ELSE overlapsLexically(startTime, endTime,
                                             booking.startTime, booking.endTime)
  IN ~hasOverlap

\* MemStorage.createAppointment: the row is the request's fields and the id,
\* so a status the request leaves out stays absent
memCreateAppointment(appointment) ==
  [id |-> nextAppointmentId,
   psychologistId |-> appointment.psychologistId,
   roomId |-> appointment.roomId,
   date |-> appointment.date,
   startTime |-> appointment.startTime,
   endTime |-> appointment.endTime,
   status |-> appointment.status]

\* variant: every id is taken to name a psychologist
getPsychologistAny(id) == TRUE

getPsychologist(id) == id \in Psychologists

\* date is the JavaScript value the caller passed: a Date or a string.
\* date.toISOString() exists on a Date only, so a string makes the call throw.
getAppointmentsByDate(date) ==
  IF date.type # "Date"
  THEN [threw |-> TRUE, rows |-> {}]
  ELSE [threw |-> FALSE,
        rows |-> {a \in appointments : a.date = toISODate(date.t)}]

\* .set(data).where(eq(id)): the fields named in data replace the row's
updateRow(row, data) ==
  [f \in DOMAIN row |->
     IF f \notin DOMAIN data THEN row[f]
     ELSE IF f \in {"startTime", "endTime"} THEN pgTime(data[f])
     ELSE data[f]]

----------------------------------------------------------------------------
(* Requests *)

\* no call of calculateAvailableSlots yet
NoCall == [startDate |-> 0, endDate |-> 0, appointments |-> {}, again |-> FALSE]

PostAppointment == "POST /api/appointments"
QuickBook       == "POST /api/appointments/quick-book"
PutAppointment  == "PUT /api/appointments/:id"
DelAppointment  == "DELETE /api/appointments/:id"
PostRoomBooking == "POST /api/room-bookings"
PutRoomBooking  == "PUT /api/room-bookings/:id"
DelRoomBooking  == "DELETE /api/room-bookings/:id"
GetAvailability == "GET /api/rooms/availability/:id"

NoBody == [roomId |-> Missing, psychologistId |-> Missing, date |-> Missing,
           startTime |-> <<>>, endTime |-> <<>>, patientName |-> "",
           status |-> NoStatus]

Body(roomId, psychologistId, date, startTime, endTime) ==
  [NoBody EXCEPT !.roomId = roomId, !.psychologistId = psychologistId,
                 !.date = date, !.startTime = startTime, !.endTime = endTime,
                 !.patientName = "Ana"]

\* a connection with no request in flight
Idle == [kind |-> "none", pc |-> "idle", body |-> NoBody, appointment |-> 0]

\* the handler awaits its next storage call
Await(kind, pc, body) == [Idle EXCEPT !.kind = kind, !.pc = pc, !.body = body]

NoResponse == [kind |-> "none", res |-> 0, available |-> FALSE]

\* res.status(code).json(...)
Reply(kind, code) == [NoResponse EXCEPT !.kind = kind, !.res = code]

\* outcome of a handler step that replies and writes nothing
Done(reply) ==
  [appointments |-> appointments, roomBookings |-> roomBookings,
   nextAppointmentId |-> nextAppointmentId,
   nextRoomBookingId |-> nextRoomBookingId,
   rq |-> Idle, reply |-> reply]

\* outcome of a handler step that goes on to its next storage call
Continue(rq) == [Done(response) EXCEPT !.rq = rq]

----------------------------------------------------------------------------
(* Handlers, as functions of the request and the store *)

\* variant: the appointment is inserted before the room is checked
postAppointmentsWriteFirst(data) ==
  LET appointment == createAppointment(data)
      isRoomAvailable ==
        checkRoomAvailability(data.roomId, NewDate(data.date),
                              data.startTime, data.endTime)
  IN IF ~isRoomAvailable
     THEN [Done(Reply(PostAppointment, 409))
             EXCEPT !.appointments = appointments \cup {appointment},
                    !.nextAppointmentId = nextAppointmentId + 1]
     ELSE [Continue([Await(PostAppointment, "createRoomBooking", data)
                       EXCEPT !.appointment = appointment.id])
             EXCEPT !.appointments = appointments \cup {appointment},
                    !.nextAppointmentId = nextAppointmentId + 1]

\* POST /api/appointments up to the room check
postAppointments(data) ==
  LET isRoomAvailable ==
        checkRoomAvailability(data.roomId, NewDate(data.date),
                              data.startTime, data.endTime)
  IN IF ~isRoomAvailable
     THEN Done(Reply(PostAppointment, 409))
     ELSE Continue(Await(PostAppointment, "createAppointment", data))

\* await storage.createAppointment(data), in either appointment handler
createAppointmentStep(rq) ==
  LET appointment == createAppointment(rq.body)
  IN [Continue([rq EXCEPT !.pc = "createRoomBooking",
                          !.appointment = appointment.id])
        EXCEPT !.appointments = appointments \cup {appointment},
               !.nextAppointmentId = nextAppointmentId + 1]

\* variant: the room is checked again before the insert
createRoomBookingStepRechecked(rq) ==
  LET booking == createRoomBooking(rq.body)
  IN IF checkRoomAvailability(rq.body.roomId, NewDate(rq.body.date),
                              rq.body.startTime, rq.body.endTime)
     THEN [Done(Reply(rq.kind, 201))
             EXCEPT !.roomBookings = roomBookings \cup {booking},
                    !.nextRoomBookingId = nextRoomBookingId + 1]
     ELSE Done(Reply(rq.kind, 409))

\* await storage.createRoomBooking({...}); res.status(201)
createRoomBookingStep(rq) ==
  LET booking == createRoomBooking(rq.body)
  IN [Done(Reply(rq.kind, 201))
        EXCEPT !.roomBookings = roomBookings \cup {booking},
               !.nextRoomBookingId = nextRoomBookingId + 1]

\* variant: the appointment is taken back when its room booking fails
createRoomBookingThrowsCompensating(rq) ==
  [Done(Reply(rq.kind, 500))
     EXCEPT !.appointments = {a \in appointments : a.id # rq.appointment}]

\* await storage.createRoomBooking({...}) rejects: the catch block answers 500
createRoomBookingThrows(rq) == Done(Reply(rq.kind, 500))

\* variant: the room is not checked
postRoomBookingsUnchecked(data) ==
  Continue(Await(PostRoomBooking, "createRoomBooking", data))

\* POST /api/room-bookings up to the room check
postRoomBookings(data) ==
  LET isRoomAvailable ==
        checkRoomAvailability(data.roomId, NewDate(data.date),
                              data.startTime, data.endTime)
  IN IF ~isRoomAvailable
     THEN Done(Reply(PostRoomBooking, 409))
     ELSE Continue(Await(PostRoomBooking, "createRoomBooking", data))

\* roomId || 1
roomOrDefault(roomId) == IF roomId = Missing THEN 1 ELSE roomId

\* variant: the psychologist's appointments are read before the room is
\* checked
quickBookPsychologistFirst(body) ==
  IF \/ body.date = Missing \/ body.startTime = <<>> \/ body.endTime = <<>>
     \/ body.patientName = "" \/ body.psychologistId = Missing
  THEN Done(Reply(QuickBook, 400))
  ELSE IF ~getPsychologist(body.psychologistId)
  THEN Done(Reply(QuickBook, 404))
  ELSE
    LET existingAppointments ==
          getAppointmentsByDate([type |-> "string", s |-> body.date])
        isTimeSlotTaken ==
          \E app \in existingAppointments.rows :
            /\ app.psychologistId = body.psychologistId
            /\ overlapsInMinutes(body.startTime, body.endTime,
                                 app.startTime, app.endTime)
        appointmentData ==
          [body EXCEPT !.roomId = roomOrDefault(body.roomId),
                       !.status = "pending-confirmation"]
    IN IF existingAppointments.threw
       THEN Done(Reply(QuickBook, 500))
       ELSE IF isTimeSlotTaken
       THEN Done(Reply(QuickBook, 409))
       ELSE IF ~checkRoomAvailability(roomOrDefault(body.roomId),
                                      NewDate(body.date),
                                      body.startTime, body.endTime)
       THEN Done(Reply(QuickBook, 409))
       ELSE Continue(Await(QuickBook, "createAppointment", appointmentData))

\* the first registered POST /api/appointments/quick-book, up to its writes
quickBook(body) ==
  IF \/ body.date = Missing \/ body.startTime = <<>> \/ body.endTime = <<>>
     \/ body.patientName = "" \/ body.psychologistId = Missing
  THEN Done(Reply(QuickBook, 400))
  ELSE IF ~getPsychologist(body.psychologistId)
  THEN Done(Reply(QuickBook, 404))
  ELSE IF ~checkRoomAvailability(roomOrDefault(body.roomId),
                                 NewDate(body.date),
                                 body.startTime, body.endTime)
  THEN Done(Reply(QuickBook, 409))
  ELSE
    LET existingAppointments ==
          getAppointmentsByDate([type |-> "string", s |-> body.date])
        isTimeSlotTaken ==
          \E app \in existingAppointments.rows :
            /\ app.psychologistId = body.psychologistId
            /\ overlapsInMinutes(body.startTime, body.endTime,
                                 app.startTime, app.endTime)
        appointmentData ==
          [body EXCEPT !.roomId = roomOrDefault(body.roomId),
                       !.status = "pending-confirmation"]
    IN IF existingAppointments.threw
       THEN Done(Reply(QuickBook, 500))
       ELSE IF isTimeSlotTaken
       THEN Done(Reply(QuickBook, 409))
       ELSE Continue(Await(QuickBook, "createAppointment", appointmentData))

\* the second registered POST /api/appointments/quick-book: no room check,
\* no psychologist check, no room booking; room_id is NOT NULL
secondQuickBook(body) ==
  IF \/ body.date = Missing \/ body.startTime = <<>> \/ body.endTime = <<>>
     \/ body.patientName = "" \/ body.psychologistId = Missing
  THEN Done(Reply(QuickBook, 400))
  ELSE IF body.roomId = Missing
  THEN Done(Reply(QuickBook, 500))
  ELSE
    LET newAppointment ==
          createAppointment([body EXCEPT !.status = "pending-confirmation"])
    IN [Done(Reply(QuickBook, 201))
          EXCEPT !.appointments = appointments \cup {newAppointment},
                 !.nextAppointmentId = nextAppointmentId + 1]

\* variant: the handler registered last serves the route
quickBookRouteLastWins(body) == secondQuickBook(body)

\* the route POST /api/appointments/quick-book: the router runs the handlers
\* in the order of registration, the next one only when a handler calls
\* next(); the first handler takes (req, res) and never does
quickBookRoute(body) == quickBook(body)

\* PUT /api/room-bookings/:id
putRoomBooking(id, data) ==
  IF \E b \in roomBookings : b.id = id
  THEN [Done(Reply(PutRoomBooking, 200)) EXCEPT
          !.roomBookings = {IF b.id = id THEN updateRow(b, data) ELSE b :
                              b \in roomBookings}]
  ELSE Done(Reply(PutRoomBooking, 404))

\* DELETE /api/room-bookings/:id
deleteRoomBooking(id) ==
  IF \E b \in roomBookings : b.id = id
  THEN [Done(Reply(DelRoomBooking, 204)) EXCEPT
          !.roomBookings = {b \in roomBookings : b.id # id}]
  ELSE Done(Reply(DelRoomBooking, 404))

\* PUT /api/appointments/:id
putAppointment(id, data) ==
  IF \E a \in appointments : a.id = id
  THEN [Done(Reply(PutAppointment, 200)) EXCEPT
          !.appointments = {IF a.id = id THEN updateRow(a, data) ELSE a :
                              a \in appointments}]
  ELSE Done(Reply(PutAppointment, 404))

\* variant: the room bookings of the appointment's window go with it
deleteAppointmentCascading(id) ==
  IF \E a \in appointments : a.id = id
  THEN [Done(Reply(DelAppointment, 204)) EXCEPT
          !.appointments = {a \in appointments : a.id # id},
          !.roomBookings =
             {b \in roomBookings :
                ~\E a \in appointments :
                   /\ a.id = id /\ a.roomId = b.roomId /\ a.date = b.date
                   /\ a.startTime = b.startTime /\ a.endTime = b.endTime}]
  ELSE Done(Reply(DelAppointment, 404))

\* DELETE /api/appointments/:id
deleteAppointment(id) ==
  IF \E a \in appointments : a.id = id
  THEN [Done(Reply(DelAppointment, 204)) EXCEPT
          !.appointments = {a \in appointments : a.id # id}]
  ELSE Done(Reply(DelAppointment, 404))

\* variant: an available window is held for the caller
getAvailabilityHolding(roomId, date, startTime, endTime) ==
  LET isAvailable == checkRoomAvailability(roomId, NewDate(date),
                                           startTime, endTime)
      hold == createRoomBooking(Body(roomId, Missing, date,
                                     startTime, endTime))
  IN IF isAvailable
     THEN [Done([Reply(GetAvailability, 200) EXCEPT !.available = TRUE])
             EXCEPT !.roomBookings = roomBookings \cup {hold},
                    !.nextRoomBookingId = nextRoomBookingId + 1]
     ELSE Done(Reply(GetAvailability, 200))

\* GET /api/rooms/availability/:id
getAvailability(roomId, date, startTime, endTime) ==
  Done([Reply(GetAvailability, 200) EXCEPT
          !.available = checkRoomAvailability(roomId, NewDate(date),
                                              startTime, endTime)])

----------------------------------------------------------------------------
(* The requests the clients send *)

\* bodies that pass insertRoomBookingSchema: two touching windows of room 1
\* on date 1, the hour that overlaps both, and that hour in another room,
\* on another date, for an id that names no psychologist
RoomBookingBodies ==
  {Body(1, 1, 1, T0900, T0930), Body(1, 1, 1, T0930, T1000),
   Body(1, 1, 1, T0900, T1000), Body(2, 2, 2, T0900, T1000)}

\* bodies that pass insertAppointmentSchema
AppointmentBodies == RoomBookingBodies

\* req.body of quick-book is not validated: any field may be absent
Without(body) ==
  {[body EXCEPT !.roomId = Missing], [body EXCEPT !.psychologistId = Missing],
   [body EXCEPT !.date = Missing], [body EXCEPT !.startTime = <<>>],
   [body EXCEPT !.endTime = <<>>], [body EXCEPT !.patientName = ""]}

\* a complete body as the dashboard sends it, one for the other room with a
\* status of the caller's choice, one for an id that names no psychologist,
\* one without roomId and one without date
QuickBookBodies ==
  {[Body(1, 1, 1, T0900, T0930) EXCEPT !.status = "scheduled"],
   [Body(2, 1, 1, T0900, T1000) EXCEPT !.status = "confirmed"],
   Body(2, 2, 2, T0900, T1000),
   [Body(1, 1, 1, T0930, T1000) EXCEPT !.roomId = Missing],
   [Body(1, 1, 1, T0930, T1000) EXCEPT !.date = Missing]}

\* the body sent to PUT: a new time window
WindowUpdates == {[startTime |-> T0900, endTime |-> T1000]}

----------------------------------------------------------------------------
(* Actions: one per handler, or per awaited storage call of a handler *)

\* a request is served on the first connection with none in flight
Free(r) ==
  /\ req[r].pc = "idle"
  /\ \A q \in Reqs : q < r => req[q].pc # "idle"

\* requests in flight that will still insert an appointment / a room booking
PendingAppointments ==
  Cardinality({r \in Reqs : req[r].pc = "createAppointment"})
PendingRoomBookings ==
  Cardinality({r \in Reqs :
                 req[r].pc \in {"createAppointment", "createRoomBooking"}})

\* the serials stay within their bounds: a request that will insert is admitted
\* only while ids remain for it
Admitted(rq) ==
  /\ rq.pc = "createAppointment" =>
       nextAppointmentId + PendingAppointments <= MaxAppointmentId
  /\ rq.pc \in {"createAppointment", "createRoomBooking"} =>
       nextRoomBookingId + PendingRoomBookings <= MaxRoomBookingId

Commit(r, o) ==
  /\ appointments' = o.appointments
  /\ roomBookings' = o.roomBookings
  /\ nextAppointmentId' = o.nextAppointmentId
  /\ nextRoomBookingId' = o.nextRoomBookingId
  /\ req' = [req EXCEPT ![r] = o.rq]
  /\ response' = o.reply
  /\ UNCHANGED <<tz, availableTimes, lastCall>>

PostAppointments(r) ==
  /\ Free(r)
  /\ \E data \in AppointmentBodies :
       /\ Admitted(postAppointments(data).rq)
       /\ Commit(r, postAppointments(data))

CreateAppointment(r) ==
  /\ req[r].pc = "createAppointment"
  /\ Commit(r, createAppointmentStep(req[r]))

CreateRoomBooking(r) ==
  /\ req[r].pc = "createRoomBooking"
  /\ Commit(r, createRoomBookingStep(req[r]))

PostRoomBookings(r) ==
  /\ Free(r)
  /\ \E data \in RoomBookingBodies :
       /\ Admitted(postRoomBookings(data).rq)
       /\ Commit(r, postRoomBookings(data))

PostQuickBook(r) ==
  /\ Free(r)
  /\ \E body \in QuickBookBodies :
       /\ Admitted(quickBookRoute(body).rq)
       /\ Commit(r, quickBookRoute(body))

PutRoomBookings(r) ==
  /\ Free(r)
  /\ \E id \in 1..MaxRoomBookingId, data \in WindowUpdates :
       Commit(r, putRoomBooking(id, data))

DeleteRoomBookings(r) ==
  /\ Free(r)
  /\ \E id \in 1..MaxRoomBookingId : Commit(r, deleteRoomBooking(id))

PutAppointments(r) ==
  /\ Free(r)
  /\ \E id \in 1..MaxAppointmentId, data \in WindowUpdates :
       Commit(r, putAppointment(id, data))

DeleteAppointments(r) ==
  /\ Free(r)
  /\ \E id \in 1..MaxAppointmentId : Commit(r, deleteAppointment(id))

GetRoomAvailability(r) ==
  /\ Free(r)
  /\ \E data \in RoomBookingBodies :
       Commit(r, getAvailability(data.roomId, data.date,
                                 data.startTime, data.endTime))

Init ==
  /\ appointments = {}
  /\ roomBookings = {}
  /\ nextAppointmentId = 1
  /\ nextRoomBookingId = 1
  /\ req = [r \in Reqs |-> Idle]
  /\ response = NoResponse
  /\ tz = 0
  /\ availableTimes = <<>>
  /\ lastCall = NoCall

Next ==
  \E r \in Reqs :
    \/ PostAppointments(r)
    \/ CreateAppointment(r)
    \/ CreateRoomBooking(r)
    \/ PostRoomBookings(r)
    \/ PostQuickBook(r)
    \/ PutRoomBookings(r)
    \/ DeleteRoomBookings(r)
    \/ PutAppointments(r)
    \/ DeleteAppointments(r)
    \/ GetRoomAvailability(r)

Spec == Init /\ [][Next]_vars

\* the three handlers that create, and the steps they await
CreateNext ==
  \E r \in Reqs :
    \/ PostAppointments(r)
    \/ CreateAppointment(r)
    \/ CreateRoomBooking(r)
    \/ PostRoomBookings(r)
    \/ PostQuickBook(r)

CreateSpec == Init /\ [][CreateNext]_vars

\* the insert into room_bookings fails (the database refuses or is gone)
CreateRoomBookingThrows(r) ==
  /\ req[r].pc = "createRoomBooking"
  /\ Commit(r, createRoomBookingThrows(req[r]))

\* appointments and room bookings are created while the insert of a room
\* booking may fail
FailureNext ==
  \E r \in Reqs :
    \/ PostAppointments(r)
    \/ PostRoomBookings(r)
    \/ CreateAppointment(r)
    \/ CreateRoomBooking(r)
    \/ CreateRoomBookingThrows(r)
    \/ GetRoomAvailability(r)

FailureSpec == Init /\ [][FailureNext]_vars

\* appointments are created and deleted while callers ask for rooms
DeleteNext ==
  \E r \in Reqs :
    \/ PostAppointments(r)
    \/ CreateAppointment(r)
    \/ CreateRoomBooking(r)
    \/ PostRoomBookings(r)
    \/ DeleteAppointments(r)
    \/ GetRoomAvailability(r)

DeleteSpec == Init /\ [][DeleteNext]_vars

\* the body sent to PUT /api/appointments/:id to cancel
CancelUpdates == {[status |-> "canceled"]}

\* PUT /api/appointments/:id {status: "canceled"}
CancelAppointments(r) ==
  /\ Free(r)
  /\ \E id \in 1..MaxAppointmentId, data \in CancelUpdates :
       Commit(r, putAppointment(id, data))

\* appointments are created, canceled and deleted while rooms are asked for
CancelNext ==
  \E r \in Reqs :
    \/ PostAppointments(r)
    \/ CreateAppointment(r)
    \/ CreateRoomBooking(r)
    \/ CancelAppointments(r)
    \/ DeleteAppointments(r)
    \/ GetRoomAvailability(r)

CancelSpec == Init /\ [][CancelNext]_vars

\* rooms are booked and released while callers ask whether they are free
AvailabilityNext ==
  \E r \in Reqs :
    \/ PostRoomBookings(r)
    \/ CreateRoomBooking(r)
    \/ DeleteRoomBookings(r)
    \/ GetRoomAvailability(r)

AvailabilitySpec == Init /\ [][AvailabilityNext]_vars

----------------------------------------------------------------------------
(* The availability calculator behind POST /api/whatsapp/share-availability *)

MaxDay == 8            \* last day a caller asks about (Monday 2024-06-10)

\* the server runs in UTC or in the venue's zone, America/Sao_Paulo (UTC-3)
TzOffsets == {-3, 0}

ShareAvailabilityKind == "POST /api/whatsapp/share-availability"

workingHoursStart == <<48, 56, 58, 48, 48>>   \* "08:00"
workingHoursEnd == <<49, 56, 58, 48, 48>>     \* "18:00"
slotDuration == 60

\* Date.prototype.getDay(): the weekday of the instant in the server's local
\* time, 0 = Sunday .. 6 = Saturday
getDay(date) == ((date + tz) \div 24) % 7

\* new Date(`2000-01-01T${time}`): a local time of that day, in minutes
NewDateTime(timeStr) ==
  ((timeStr[1] - 48) * 10 + (timeStr[2] - 48)) * 60
    + (timeStr[4] - 48) * 10 + (timeStr[5] - 48)

\* Date.prototype.toTimeString().substring(0, 5): local "HH:MM"
toTimeString(minutes) ==
  LET h == (minutes \div 60) % 24
      m == minutes % 60
  IN <<48 + (h \div 10), 48 + (h % 10), 58, 48 + (m \div 10), 48 + (m % 10)>>

\* the while loop of calculateTimeSlots, from currentTime on
RECURSIVE calculateTimeSlotsFrom(_, _, _, _)
calculateTimeSlotsFrom(currentTime, endTimeDate, durationMinutes, busySlots) ==
  IF ~(currentTime < endTimeDate) THEN <<>>
  ELSE
    LET currentTimeStr == toTimeString(currentTime)
        slotEndTime == currentTime + durationMinutes
        slotEndTimeStr == toTimeString(slotEndTime)
        isAvailable == ~\E busy \in busySlots :
                           overlapsLexically(currentTimeStr, slotEndTimeStr,
                                             busy.start, busy.end)
        slot == currentTimeStr \o <<32, 45, 32>> \o slotEndTimeStr
    IN (IF isAvailable THEN <<slot>> ELSE <<>>)
         \o calculateTimeSlotsFrom(slotEndTime, endTimeDate,
                                   durationMinutes, busySlots)

calculateTimeSlots(startTime, endTime, durationMinutes, busySlots) ==
  calculateTimeSlotsFrom(NewDateTime(startTime), NewDateTime(endTime),
                         durationMinutes, busySlots)

\* the while loop of calculateAvailableSlots that collects the dates;
\* setDate(getDate() + 1) moves the instant on by one local day
RECURSIVE collectDates(_, _)
collectDates(currentDate, endDate) ==
  IF ~(currentDate <= endDate) THEN <<>>
  ELSE (IF getDay(currentDate) # 0 /\ getDay(currentDate) # 6
          THEN <<currentDate>> ELSE <<>>)
         \o collectDates(currentDate + 24, endDate)

\* as calculateAvailableSlots, with availableTimes kept across calls
calculateAvailableSlotsAccumulating(startDate, endDate, appts) ==
  LET dates == collectDates(startDate, endDate)
      entry(date) ==
        LET dateString == toISODate(date)
            dateAppointments ==
              {app \in appts : toISODate(NewDate(app.date)) = dateString}
            busyTimes == {[start |-> app.startTime, end |-> app.endTime] :
                            app \in dateAppointments}
        IN [date |-> dateString,
            slots |-> calculateTimeSlots(workingHoursStart, workingHoursEnd,
                                         slotDuration, busyTimes)]
  IN availableTimes \o [i \in DOMAIN dates |-> entry(dates[i])]

calculateAvailableSlots(startDate, endDate, appts) ==
  LET dates == collectDates(startDate, endDate)
      entry(date) ==
        LET dateString == toISODate(date)
            dateAppointments ==
              {app \in appts : toISODate(NewDate(app.date)) = dateString}
            busyTimes == {[start |-> app.startTime, end |-> app.endTime] :
                            app \in dateAppointments}
        IN [date |-> dateString,
            slots |-> calculateTimeSlots(workingHoursStart, workingHoursEnd,
                                         slotDuration, busyTimes)]
  IN [i \in DOMAIN dates |-> entry(dates[i])]

getAppointmentsByDateRange(startDate, endDate) ==
  {a \in appointments :
     toISODate(startDate) <= a.date /\ a.date <= toISODate(endDate)}

\* the ranges callers ask about: a Monday, a Monday and Tuesday, a weekend
\* up to the Monday after it, and a range that ends before it starts
ShareRanges == {<<1, 1>>, <<1, 2>>, <<6, MaxDay>>, <<2, 1>>}

\* POST /api/whatsapp/share-availability of an authenticated caller who
\* names a phone number: from the read of the appointments on, the handler
\* computes the slots it sends without awaiting anything
ShareAvailability ==
  \E psychologistId \in PsychologistIds, range \in ShareRanges :
   LET startDate == range[1]
       endDate == range[2]
   IN
    /\ IF ~getPsychologist(psychologistId)
         THEN /\ response' = Reply(ShareAvailabilityKind, 404)
              /\ UNCHANGED <<availableTimes, lastCall>>
         ELSE LET start == NewDate(startDate)
                  end == NewDate(endDate)
                  psychologistAppointments ==
                    {app \in getAppointmentsByDateRange(start, end) :
                       app.psychologistId = psychologistId}
              IN /\ availableTimes' =
                      calculateAvailableSlots(start, end,
                                              psychologistAppointments)
                 /\ lastCall' =
                      [startDate |-> start, endDate |-> end,
                       appointments |-> psychologistAppointments,
                       again |->
                         /\ lastCall.startDate = start
                         /\ lastCall.endDate = end
                         /\ lastCall.appointments = psychologistAppointments]
                 /\ response' = Reply(ShareAvailabilityKind, 200)
    /\ UNCHANGED <<appointments, roomBookings, nextAppointmentId,
                   nextRoomBookingId, req, tz>>

SlotInit ==
  /\ appointments = {}
  /\ roomBookings = {}
  /\ nextAppointmentId = 1
  /\ nextRoomBookingId = 1
  /\ req = [r \in Reqs |-> Idle]
  /\ response = NoResponse
  /\ tz \in TzOffsets
  /\ availableTimes = <<>>
  /\ lastCall = NoCall

T1400 == <<49, 52, 58, 48, 48>>   \* "14:00"
T1500 == <<49, 53, 58, 48, 48>>   \* "15:00"

\* an afternoon session of psychologist 1 on Monday 2024-06-03
AfternoonBodies == {Body(1, 1, 1, T1400, T1500)}

\* POST /api/appointments for the afternoon session
PostAfternoonAppointment ==
  /\ Free(1)
  /\ \E data \in AfternoonBodies :
       /\ Admitted(postAppointments(data).rq)
       /\ Commit(1, postAppointments(data))

\* appointments are created on one connection while availability is shared
SlotNext ==
  \/ PostAppointments(1)
  \/ PostAfternoonAppointment
  \/ CreateAppointment(1)
  \/ CreateRoomBooking(1)
  \/ ShareAvailability

SlotSpec == SlotInit /\ [][SlotNext]_vars

----------------------------------------------------------------------------
(* One member of staff at the dashboard: requests one after the other *)

MaxStaffId == 2        \* ids handed out by either serial in StaffSpec

\* a session, a session of the same psychologist at that time in the other
\* room, a window that ends before it starts, a status of the caller's own
StaffAppointmentBodies ==
  {Body(1, 1, 1, T0900, T1000), Body(2, 1, 1, T0900, T1000),
   Body(1, 1, 2, T1000, T0900),
   [Body(2, 1, 2, T0900, T0930) EXCEPT !.status = "archived"]}

StaffRoomBookingBodies ==
  {Body(1, 1, 1, T0900, T0930), Body(1, 1, 1, T0930, T1000),
   Body(1, 1, 2, T1000, T0900)}

\* the body sent to PUT /api/appointments/:id: a new window or a new status
StaffAppointmentUpdates == WindowUpdates \cup {[status |-> "archived"]}

StaffAdmitted(rq) ==
  /\ rq.pc = "createAppointment" => nextAppointmentId <= MaxStaffId
  /\ rq.pc \in {"createAppointment", "createRoomBooking"} =>
       nextRoomBookingId <= MaxStaffId

StaffPostAppointments ==
  /\ Free(1)
  /\ \E data \in StaffAppointmentBodies :
       /\ StaffAdmitted(postAppointments(data).rq)
       /\ Commit(1, postAppointments(data))

StaffPostRoomBookings ==
  /\ Free(1)
  /\ \E data \in StaffRoomBookingBodies :
       /\ StaffAdmitted(postRoomBookings(data).rq)
       /\ Commit(1, postRoomBookings(data))

StaffPutAppointments ==
  /\ Free(1)
  /\ \E id \in 1..MaxStaffId, data \in StaffAppointmentUpdates :
       Commit(1, putAppointment(id, data))

StaffPutRoomBookings ==
  /\ Free(1)
  /\ \E id \in 1..MaxStaffId, data \in WindowUpdates :
       Commit(1, putRoomBooking(id, data))

StaffNext ==
  \/ StaffPostAppointments
  \/ CreateAppointment(1)
  \/ CreateRoomBooking(1)
  \/ StaffPostRoomBookings
  \/ PostQuickBook(1)
  \/ StaffPutAppointments
  \/ StaffPutRoomBookings

StaffSpec == Init /\ [][StaffNext]_vars

----------------------------------------------------------------------------
(* Creates only, one request after the other, for any window of room 1 *)

\* every window over the three times: well-formed, zero-length, inverted
SequentialBodies ==
  {Body(1, 1, 1, startTime, endTime) : startTime \in Times, endTime \in Times}

SequentialPostAppointments ==
  /\ Free(1)
  /\ \E data \in SequentialBodies :
       /\ StaffAdmitted(postAppointments(data).rq)
       /\ Commit(1, postAppointments(data))

SequentialPostRoomBookings ==
  /\ Free(1)
  /\ \E data \in SequentialBodies :
       /\ StaffAdmitted(postRoomBookings(data).rq)
       /\ Commit(1, postRoomBookings(data))

SequentialNext ==
  \/ SequentialPostAppointments
  \/ CreateAppointment(1)
  \/ CreateRoomBooking(1)
  \/ SequentialPostRoomBookings
  \/ PostQuickBook(1)

SequentialSpec == Init /\ [][SequentialNext]_vars

----------------------------------------------------------------------------
(* The two overlap tests on one pair of intervals *)

\* "00:00", "08:05", "09:00", "09:30", "10:00", "10:09", "19:30", "23:59"
ClockTimes ==
  {<<48, 48, 58, 48, 48>>, <<48, 56, 58, 48, 53>>, T0900, T0930, T1000,
   <<49, 48, 58, 48, 57>>, <<49, 57, 58, 51, 48>>, <<50, 51, 58, 53, 57>>}

CompareOverlap == "overlap tests"

\* connection 1 holds a requested window, as the client sends it
CompareInit ==
  /\ appointments = {}
  /\ roomBookings = {}
  /\ nextAppointmentId = 1
  /\ nextRoomBookingId = 1
  /\ \E startTime \in ClockTimes, endTime \in ClockTimes :
       req = [r \in Reqs |->
                IF r = 1
                THEN Await(CompareOverlap, "requested",
                           Body(1, 1, 1, startTime, endTime))
                ELSE Idle]
  /\ response = NoResponse
  /\ tz = 0
  /\ availableTimes = <<>>
  /\ lastCall = NoCall

\* the requested window is tested against a second window, held on
\* connection 2, by the room test (strings) and by the psychologist test
\* (minutes): available reports the first, res the second
CompareWindows ==
  /\ req[2].pc = "idle"
  /\ \E startTime \in ClockTimes, endTime \in ClockTimes :
       /\ req' = [req EXCEPT ![2] = Await(CompareOverlap, "existing",
                                          Body(1, 1, 1, startTime, endTime))]
       /\ response' =
            [kind |-> CompareOverlap,
             res |-> IF overlapsInMinutes(req[1].body.startTime,
                                          req[1].body.endTime,
                                          startTime, endTime)
                     THEN 409 ELSE 200,
             available |-> ~overlapsLexically(req[1].body.startTime,
                                              req[1].body.endTime,
                                              startTime, endTime)]
  /\ UNCHANGED <<appointments, roomBookings, nextAppointmentId,
                 nextRoomBookingId, tz, availableTimes, lastCall>>

CompareNext == CompareWindows

CompareSpec == CompareInit /\ [][CompareNext]_vars

----------------------------------------------------------------------------
(* Vocabulary of the properties *)

\* the half-open rule on minutes since midnight
Overlaps(aStart, aEnd, bStart, bEnd) ==
  /\ timeToMinutes(aStart) < timeToMinutes(bEnd)
  /\ timeToMinutes(aEnd) > timeToMinutes(bStart)

WellFormed(x) == timeToMinutes(x.startTime) < timeToMinutes(x.endTime)

\* the same room, date and times of day
SameSlot(x, y) ==
  /\ x.roomId = y.roomId
  /\ x.date = y.date
  /\ timeToMinutes(x.startTime) = timeToMinutes(y.startTime)
  /\ timeToMinutes(x.endTime) = timeToMinutes(y.endTime)

\* the windows with start before end
Windows ==
  {w \in Times \X Times : timeToMinutes(w[1]) < timeToMinutes(w[2])}

\* every complete body for a well-formed window
AllBodies ==
  {Body(rm, p, d, w[1], w[2]) :
     rm \in Rooms, p \in PsychologistIds, d \in Dates, w \in Windows}

\* the bodies a caller can send to quick-book: complete or with one field
\* absent, without a status or with one of the caller's choice
AllQuickBookBodies ==
  UNION {{b, [b EXCEPT !.status = "scheduled"],
          [b EXCEPT !.status = "confirmed"]} :
           b \in AllBodies \cup UNION {Without(x) : x \in RoomBookingBodies}}

RequiredPresent(body) ==
  /\ body.date # Missing
  /\ body.startTime # <<>>
  /\ body.endTime # <<>>
  /\ body.patientName # ""
  /\ body.psychologistId # Missing

\* a handler outcome that wrote nothing
Wrote(o) ==
  \/ o.appointments # appointments
  \/ o.roomBookings # roomBookings
  \/ o.nextAppointmentId # nextAppointmentId
  \/ o.nextRoomBookingId # nextRoomBookingId

----------------------------------------------------------------------------
(* C1..C10 *)

\* C1: no two distinct stored Room Bookings of the same room and date
\* overlap, in any state the HTTP operations reach.
C1_NoOverlap ==
  \A b1 \in roomBookings, b2 \in roomBookings :
    (b1.id # b2.id /\ b1.roomId = b2.roomId /\ b1.date = b2.date)
      => ~(StrLess(b1.startTime, b2.endTime) /\ StrLess(b2.startTime, b1.endTime))

\* C2: a request that has passed the availability check persists its Room
\* Booking at its write step whatever was stored in between: the write does
\* not look at the store again, so two requests that both passed the check
\* are both persisted.
C2_WriteWithoutRecheck ==
  [][\A r \in Reqs :
       (req[r].pc = "createRoomBooking" /\ req'[r].pc = "idle")
         => /\ response' = Reply(req[r].kind, 201)
            /\ \E b \in roomBookings' \ roomBookings : SameSlot(b, req[r].body)
    ]_vars

\* C2 witness: with only the create handlers running, two well-formed
\* overlapping bookings of one room and date are both stored.  A request
\* that checks after the other's write is refused, so both checks preceded
\* both writes.
C2_DoubleBooking ==
  \E b1 \in roomBookings, b2 \in roomBookings :
    /\ b1.id < b2.id
    /\ b1.roomId = b2.roomId /\ b1.date = b2.date
    /\ WellFormed(b1) /\ WellFormed(b2)
    /\ Overlaps(b1.startTime, b1.endTime, b2.startTime, b2.endTime)

\* C3: checkRoomAvailability answers false exactly when some stored Room
\* Booking of that room and that date overlaps the window; bookings of other
\* rooms or dates do not count.
C3_Availability ==
  \A rm \in Rooms, d \in Dates, s \in Times, e \in Times :
    checkRoomAvailability(rm, NewDate(d), s, e)
      = ~(\E b \in roomBookings :
            /\ b.roomId = rm
            /\ b.date = d
            /\ Overlaps(s, e, b.startTime, b.endTime))

\* C4: a well-formed create request passes the availability check and its
\* booking is persisted when every stored booking of that room and date ends
\* at or before its start or starts at or after its end; touching at an
\* endpoint is not an overlap.
C4_TouchingAccepted ==
  \A data \in AllBodies :
    (/\ WellFormed(data)
     /\ \A b \in roomBookings :
          (b.roomId = data.roomId /\ b.date = data.date)
            => \/ timeToMinutes(b.endTime) <= timeToMinutes(data.startTime)
               \/ timeToMinutes(b.startTime) >= timeToMinutes(data.endTime))
      => /\ postAppointments(data).rq.pc = "createAppointment"
         /\ postRoomBookings(data).rq.pc = "createRoomBooking"
         /\ \E b \in createRoomBookingStep(postRoomBookings(data).rq).roomBookings :
              SameSlot(b, data) /\ b.id = nextRoomBookingId

\* C5: a well-formed create request whose window overlaps a well-formed
\* stored booking of that room and date is answered 409 and writes nothing.
C5_ConflictNoWrites ==
  \A data \in AllBodies :
    (/\ WellFormed(data)
     /\ \E b \in roomBookings :
          /\ b.roomId = data.roomId /\ b.date = data.date
          /\ WellFormed(b)
          /\ Overlaps(data.startTime, data.endTime, b.startTime, b.endTime))
      => /\ postAppointments(data).reply = Reply(PostAppointment, 409)
         /\ postAppointments(data).rq = Idle
         /\ ~Wrote(postAppointments(data))
         /\ postRoomBookings(data).reply = Reply(PostRoomBooking, 409)
         /\ postRoomBookings(data).rq = Idle
         /\ ~Wrote(postRoomBookings(data))

\* C5 witness: POST /api/appointments has just been answered 409 while the
\* only bookings stored are of room 1 on date 1 from 09:00 to 10:00, which
\* every window of that room and date overlaps, and nothing else is stored.
C5_Witness ==
  /\ response = Reply(PostAppointment, 409)
  /\ appointments = {}
  /\ roomBookings # {}
  /\ \A b \in roomBookings :
       /\ b.roomId = 1 /\ b.date = 1
       /\ timeToMinutes(b.startTime) = timeToMinutes(T0900)
       /\ timeToMinutes(b.endTime) = timeToMinutes(T1000)

\* C6: when an appointment-creating request is answered 201, the store holds
\* the Appointment it created and a Room Booking with that Appointment's
\* room, psychologist, date, start and end.
C6_DualEntity ==
  [][\A r \in Reqs :
       (/\ req[r].kind \in {PostAppointment, QuickBook}
        /\ req[r].pc = "createRoomBooking"
        /\ req'[r].pc = "idle"
        /\ response'.res = 201)
         => \E a \in appointments' :
              /\ a.id = req[r].appointment
              /\ \E b \in roomBookings' :
                   /\ b.roomId = a.roomId
                   /\ b.psychologistId = a.psychologistId
                   /\ b.date = a.date
                   /\ b.startTime = a.startTime
                   /\ b.endTime = a.endTime
    ]_vars

\* C7: quick-book for a stored psychologist who has an Appointment on that
\* date overlapping the requested window, the room being free, is answered
\* 409 and writes nothing.
C7_PsychologistConflict ==
  \A body \in AllQuickBookBodies :
    (/\ RequiredPresent(body)
     /\ body.psychologistId \in Psychologists
     /\ checkRoomAvailability(roomOrDefault(body.roomId), NewDate(body.date),
                              body.startTime, body.endTime)
     /\ \E a \in appointments :
          /\ a.psychologistId = body.psychologistId
          /\ a.date = body.date
          /\ Overlaps(body.startTime, body.endTime, a.startTime, a.endTime))
      => /\ quickBook(body).reply = Reply(QuickBook, 409)
         /\ ~Wrote(quickBook(body))

C9_InputErrors ==
  \A body \in AllQuickBookBodies :
    LET o == quickBook(body)
    IN /\ ~RequiredPresent(body) => o.reply = Reply(QuickBook, 400)
       /\ (RequiredPresent(body) /\ body.psychologistId \notin Psychologists)
            => o.reply = Reply(QuickBook, 404)
       /\ (RequiredPresent(body) /\ body.psychologistId \in Psychologists)
            => o.reply.res \notin {400, 404}
       /\ o.reply.res \in {400, 404} => ~Wrote(o) /\ o.rq = Idle

\* C9 witness: quick-book has just answered 404 while bookings are stored.
C9_Witness ==
  /\ response = Reply(QuickBook, 404)
  /\ roomBookings # {}
  /\ appointments # {}

\* C10: whatever the date range, calculateAvailableSlots returns no entry
\* whose date is a Saturday or a Sunday.
C10_WeekendExclusion ==
  \A i \in DOMAIN availableTimes :
    availableTimes[i].date % 7 \notin {0, 6}

----------------------------------------------------------------------------
(* C11..C20 *)

\* the appointments POST /api/whatsapp/share-availability hands to
\* calculateAvailableSlots for psychologist 1 and the range [startDate, endDate]
AppointmentsInRange(startDate, endDate) ==
  {app \in getAppointmentsByDateRange(NewDate(startDate), NewDate(endDate)) :
     app.psychologistId = 1}

\* C11: calculateAvailableSlots returns exactly one entry for every Monday to
\* Friday date of [startDate, endDate], in strictly increasing date order,
\* whatever the slots left on that day (a fully blocked day is not omitted).
C11_OneEntryPerBusinessDay ==
  \A startDate \in 1..MaxDay, endDate \in 1..MaxDay :
    LET result == calculateAvailableSlots(
                    NewDate(startDate), NewDate(endDate),
                    AppointmentsInRange(startDate, endDate))
    IN /\ \A i \in DOMAIN result, j \in DOMAIN result :
            i < j => result[i].date < result[j].date
       /\ {result[i].date : i \in DOMAIN result}
            = {d \in startDate..endDate : d % 7 \notin {0, 6}}

\* minutes since midnight written "HH:MM"
HHMM(minutes) ==
  <<48 + ((minutes \div 60) \div 10), 48 + ((minutes \div 60) % 10), 58,
    48 + ((minutes % 60) \div 10), 48 + ((minutes % 60) % 10)>>

\* the candidates of the working window that overlap no busy interval, as
\* times of day, in order, written "HH:MM - HH:MM"
FreeCandidates(startTime, endTime, durationMinutes, busySlots) ==
  LET first == timeToMinutes(startTime)
      n == (timeToMinutes(endTime) - first) \div durationMinutes
      from(k) == first + (k - 1) * durationMinutes
      free(k) == ~\E busy \in busySlots :
                   /\ from(k) < timeToMinutes(busy.end)
                   /\ from(k) + durationMinutes > timeToMinutes(busy.start)
      kept == SelectSeq([k \in 1..n |-> k], free)
  IN [i \in DOMAIN kept |->
        HHMM(from(kept[i])) \o <<32, 45, 32>>
          \o HHMM(from(kept[i]) + durationMinutes)]

\* the busy intervals calculateAvailableSlots hands to calculateTimeSlots for
\* psychologist 1 on a date
BusyTimes(date) ==
  {[start |-> app.startTime, end |-> app.endTime] :
     app \in {a \in appointments : a.psychologistId = 1 /\ a.date = date}}

\* C12: for the working window and the slot duration, calculateTimeSlots
\* returns, in order, exactly the candidates [start + k*d, start + (k+1)*d)
\* ending no later than the window's end that overlap no busy interval of
\* the date; a candidate that only touches a busy interval is returned.
C12_SlotEnumeration ==
  \A date \in Dates :
    calculateTimeSlots(workingHoursStart, workingHoursEnd, slotDuration,
                       BusyTimes(date))
      = FreeCandidates(workingHoursStart, workingHoursEnd, slotDuration,
                       BusyTimes(date))

\* the hourly slots of 08:00-18:00 without 14:00 - 15:00
NineSlots ==
  [i \in 1..9 |->
     LET hour == IF i <= 6 THEN 7 + i ELSE 8 + i
     IN HHMM(hour * 60) \o <<32, 45, 32>> \o HHMM((hour + 1) * 60)]

\* C13: when psychologist 1 has a single appointment on Monday 2024-06-03,
\* from 14:00 to 15:00, the availability computed for that one day is one
\* entry whose slots are the nine hourly slots other than 14:00 - 15:00.
C13_NineSlots ==
  (\E app \in appointments :
     /\ app.psychologistId = 1 /\ app.date = 1
     /\ timeToMinutes(app.startTime) = 14 * 60
     /\ timeToMinutes(app.endTime) = 15 * 60
     /\ AppointmentsInRange(1, 1) = {app})
    => calculateAvailableSlots(NewDate(1), NewDate(1),
                               AppointmentsInRange(1, 1))
         = <<[date |-> 1, slots |-> NineSlots]>>

C15_CheckReadsOnly ==
  [][\A r \in Reqs :
       GetRoomAvailability(r) =>
         /\ UNCHANGED <<appointments, roomBookings,
                        nextAppointmentId, nextRoomBookingId>>
         /\ \A data \in RoomBookingBodies :
              response' = getAvailability(data.roomId, data.date,
                                          data.startTime, data.endTime).reply
                => response'.available =
                     (checkRoomAvailability(data.roomId, NewDate(data.date),
                                            data.startTime, data.endTime))'
    ]_vars

\* a check has just answered that the room is taken
C15_Witness ==
  /\ response.kind = GetAvailability
  /\ ~response.available
  /\ roomBookings # {}

\* C16: any two distinct stored appointments of one psychologist on one
\* date have windows that do not overlap.
C16_PsychologistNoOverlap ==
  \A a1 \in appointments, a2 \in appointments :
    (a1.id # a2.id /\ a1.psychologistId = a2.psychologistId
       /\ a1.date = a2.date)
      => ~Overlaps(a1.startTime, a1.endTime, a2.startTime, a2.endTime)

\* C17: every write of a room booking, by a create or by an update, follows
\* an overlap test that found the room free: the row written overlaps no
\* other booking of its room and date that was stored when it was written.
C17_ValidatedWrites ==
  [][\A b \in roomBookings' \ roomBookings :
       ~\E x \in roomBookings :
          /\ x.id # b.id
          /\ x.roomId = b.roomId /\ x.date = b.date
          /\ Overlaps(b.startTime, b.endTime, x.startTime, x.endTime)
    ]_vars

\* the statuses an appointment may have
AppointmentStatuses ==
  {"scheduled", "confirmed", "canceled", "completed", "first-session",
   "pending-confirmation"}

\* C18: the status of every stored appointment is one of scheduled,
\* confirmed, canceled, completed, first-session and pending-confirmation.
C18_StatusDomain ==
  \A a \in appointments : a.status \in AppointmentStatuses

\* C19: an appointment that POST /api/appointments creates from a request
\* without a status is stored with status scheduled, by the database-backed
\* store and by the in-memory store alike.
C19_InitialStatus ==
  \A data \in AllBodies :
    data.status = NoStatus =>
      /\ createAppointment(data).status = "scheduled"
      /\ memCreateAppointment(data).status = "scheduled"

\* C20: every stored appointment and every stored room booking starts
\* before it ends.
C20_WellFormedIntervals ==
  /\ \A a \in appointments : WellFormed(a)
  /\ \A b \in roomBookings : WellFormed(b)

(* C21..C30 *)

\* C21: when the room booking insert of POST /api/appointments fails after
\* the appointment was inserted, the request ends with 500, the appointment
\* stays stored, no room booking is written, and the answer of the
\* availability check for the request's window is what it was before.
C21_PartialFailure ==
  [][\A r \in Reqs :
       (/\ req[r].kind = PostAppointment
        /\ req[r].pc = "createRoomBooking"
        /\ req'[r].pc = "idle"
        /\ response'.res = 500)
         => /\ response' = Reply(PostAppointment, 500)
            /\ appointments' = appointments
            /\ \E a \in appointments' :
                 a.id = req[r].appointment /\ SameSlot(a, req[r].body)
            /\ roomBookings' = roomBookings
            /\ \A data \in AppointmentBodies :
                 data = req[r].body =>
                   (checkRoomAvailability(data.roomId, NewDate(data.date),
                                          data.startTime, data.endTime))'
                     = checkRoomAvailability(data.roomId, NewDate(data.date),
                                             data.startTime, data.endTime)
    ]_vars

\* the request ended with 500 and left an appointment without any room
\* booking, whose window still passes the availability check
C21_Witness ==
  /\ response = Reply(PostAppointment, 500)
  /\ roomBookings = {}
  /\ \E a \in appointments, data \in AppointmentBodies :
       /\ SameSlot(a, data)
       /\ checkRoomAvailability(data.roomId, NewDate(data.date),
                                data.startTime, data.endTime)

\* C22: DELETE /api/appointments/:id removes the appointment and nothing
\* else: the room bookings are as they were, and every window that overlaps
\* a stored room booking of its room and date is still answered unavailable.
C22_NoCascade ==
  [][\A r \in Reqs :
       (DeleteAppointments(r) /\ response'.res = 204)
         => /\ appointments' \subseteq appointments
            /\ Cardinality(appointments') = Cardinality(appointments) - 1
            /\ roomBookings' = roomBookings
            /\ \A b \in roomBookings, startTime \in Times, endTime \in Times :
                 Overlaps(startTime, endTime, b.startTime, b.endTime)
                   => ~(checkRoomAvailability(b.roomId, NewDate(b.date),
                                              startTime, endTime))'
    ]_vars

\* the one appointment made was deleted; the one room booking made, its
\* companion, is still stored and keeps its window unavailable
C22_Witness ==
  /\ response = Reply(DelAppointment, 204)
  /\ appointments = {} /\ nextAppointmentId = 2
  /\ nextRoomBookingId = 2
  /\ \A r \in Reqs : req[r].pc = "idle"
  /\ \E b \in roomBookings, data \in AppointmentBodies :
       /\ SameSlot(b, data)
       /\ ~checkRoomAvailability(data.roomId, NewDate(data.date),
                                 data.startTime, data.endTime)

\* the room booking has the room, date and window of the appointment
Mirrors(b, a) ==
  /\ b.roomId = a.roomId /\ b.date = a.date
  /\ b.startTime = a.startTime /\ b.endTime = a.endTime

\* C23: an appointment that has a room booking with its room, date and
\* window before PUT /api/appointments/:id has one after it as well.
C23_BookingMirrorsAppointment ==
  [][StaffPutAppointments =>
       \A a \in appointments, updated \in appointments' :
         (a.id = updated.id /\ \E b \in roomBookings : Mirrors(b, a))
           => \E b \in roomBookings' : Mirrors(b, updated)
    ]_vars

\* C24: on "HH:MM" strings the comparison of strings used for rooms and the
\* comparison of minutes used for psychologists give the same answer for
\* every pair of intervals, touching ones included.
C24_OnePredicate ==
  response.kind = CompareOverlap =>
    response.available = (response.res = 200)

\* a window that starts where the other ends: both tests find no overlap
C24_Witness ==
  /\ response = [kind |-> CompareOverlap, res |-> 200, available |-> TRUE]
  /\ WellFormed(req[1].body) /\ WellFormed(req[2].body)
  /\ req[1].body.startTime = req[2].body.endTime

\* C25: with the create requests served one at a time, no two stored room
\* bookings of one room and date overlap, whether their windows are
\* well-formed, zero-length or inverted.
C25_SequentialPreservation ==
  \A b1 \in roomBookings, b2 \in roomBookings :
    (b1.id # b2.id /\ b1.roomId = b2.roomId /\ b1.date = b2.date)
      => ~Overlaps(b1.startTime, b1.endTime, b2.startTime, b2.endTime)

\* two room bookings of one room and date are stored, one of them with a
\* window that does not start before it ends, and a later request was refused
C25_Witness ==
  /\ response.res = 409
  /\ \E b1 \in roomBookings, b2 \in roomBookings :
       /\ b1.id # b2.id /\ b1.roomId = b2.roomId /\ b1.date = b2.date
       /\ WellFormed(b1) /\ ~WellFormed(b2)

\* C26: quick-book writes nothing while it checks, goes on to its writes
\* only when the required fields are present, the psychologist exists, the
\* room is free and the psychologist has no overlapping appointment, and
\* answers a taken room, with 409, before it looks at the psychologist's
\* appointments; an unknown psychologist is answered before the room is
\* looked at.
C26_ChecksBeforeWrites ==
  \A body \in AllQuickBookBodies :
    LET o == quickBook(body)
        roomFree == checkRoomAvailability(roomOrDefault(body.roomId),
                                          NewDate(body.date),
                                          body.startTime, body.endTime)
    IN /\ ~Wrote(o)
       /\ o.rq.pc = "createAppointment" =>
            /\ RequiredPresent(body)
            /\ body.psychologistId \in Psychologists
            /\ roomFree
            /\ ~\E a \in appointments :
                  /\ a.psychologistId = body.psychologistId
                  /\ a.date = body.date
                  /\ Overlaps(body.startTime, body.endTime,
                              a.startTime, a.endTime)
       /\ (RequiredPresent(body) /\ ~roomFree) =>
            o.reply = Reply(QuickBook,
                            IF body.psychologistId \in Psychologists
                            THEN 409 ELSE 404)

\* quick-book has just refused a taken room
C26_Witness ==
  /\ response = Reply(QuickBook, 409)
  /\ roomBookings # {}
  /\ \A r \in Reqs : req[r].kind # QuickBook

C28_AppointmentStateIgnored ==
  [][
      /\ (roomBookings' = roomBookings) =>
           (\A roomId \in Rooms, date \in Dates,
               startTime \in Times, endTime \in Times :
              (checkRoomAvailability(roomId, NewDate(date),
                                     startTime, endTime))'
                = checkRoomAvailability(roomId, NewDate(date),
                                        startTime, endTime))
      /\ (\E r \in Reqs : CancelAppointments(r)) =>
           ((calculateAvailableSlots(NewDate(1), NewDate(2),
                                     AppointmentsInRange(1, 2)))'
              = calculateAvailableSlots(NewDate(1), NewDate(2),
                                        AppointmentsInRange(1, 2)))
    ]_vars

\* an appointment has just been canceled; its room booking still keeps the
\* window unavailable
C28_Witness ==
  /\ response = Reply(PutAppointment, 200)
  /\ \E a \in appointments, data \in AppointmentBodies :
       /\ a.status = "canceled"
       /\ SameSlot(a, data)
       /\ ~checkRoomAvailability(data.roomId, NewDate(data.date),
                                 data.startTime, data.endTime)

\* the window of a stored row as the request that created it gave it
AsRequested(row) ==
  [startTime |-> SubSeq(row.startTime, 1, 5),
   endTime |-> SubSeq(row.endTime, 1, 5)]

\* C29: whether two bookings of one room and date conflict does not depend
\* on which of them is stored and which is requested: the test of a request
\* against a stored booking answers as the test of that booking's request
\* would, had the other been stored first.
C29_OrderIndependent ==
  \A b \in roomBookings, data \in SequentialBodies :
    (b.roomId = data.roomId /\ b.date = data.date) =>
      overlapsLexically(data.startTime, data.endTime,
                        b.startTime, b.endTime)
        = overlapsLexically(AsRequested(b).startTime, AsRequested(b).endTime,
                            createRoomBooking(data).startTime,
                            createRoomBooking(data).endTime)

\* the map of a MemStorage that stored the requests this store has stored
MemRoomBookings ==
  {[memCreateRoomBooking([roomId |-> b.roomId,
                          psychologistId |-> b.psychologistId,
                          date |-> b.date,
                          startTime |-> AsRequested(b).startTime,
                          endTime |-> AsRequested(b).endTime])
      EXCEPT !.id = b.id] : b \in roomBookings}

\* C30: after the same stored requests the two stores give the next create
\* request the same answer: DatabaseStorage.checkRoomAvailability over its
\* rows and MemStorage.checkRoomAvailability over its map return the same
\* boolean for every room, date and window
C30_StoresAgree ==
  \A data \in SequentialBodies :
    checkRoomAvailability(data.roomId, NewDate(data.date),
                          data.startTime, data.endTime)
      = memCheckRoomAvailability(MemRoomBookings, data.roomId,
                                 NewDate(data.date),
                                 data.startTime, data.endTime)

====
